---- MODULE Spec2Model ----
(***************************************************************************)
(* KanMind backend: boards, tasks and comments behind the REST views.      *)
(* The database tables are the state; every view method is one action that *)
(* consumes the request in flight and leaves the response it returns.      *)
(***************************************************************************)
EXTENDS Integers, Sequences, FiniteSets, TLC

\* ---------------------------------------------------------------- bounds
NumUsers == 2
MaxBoards == 2
MaxTasks == 2
MaxComments == 2
MaxMembersLen == 2
MaxFieldTasks == 1
NumWorkers == 2
MaxConcurrentBoards == 1
MaxUsers == 3

\* ------------------------------------------------------------- constants
None == -1
HTTP_200_OK == 200
HTTP_201_CREATED == 201
HTTP_204_NO_CONTENT == 204
HTTP_400_BAD_REQUEST == 400
HTTP_403_FORBIDDEN == 403
HTTP_404_NOT_FOUND == 404
HTTP_500_INTERNAL_SERVER_ERROR == 500

\* ----------------------------------------------------------------- state
VARIABLES
    boards,         \* board_board rows: pk -> [title, owner, members]
    tasks,          \* tasks_task rows: pk -> [board, title, ..., assignee, reviewer]
    comments,       \* tasks_comment rows: pk -> [task, author, content]
    nextBoardId,    \* next primary key the board table hands out
    nextTaskId,     \* next primary key the task table hands out
    nextCommentId,  \* next primary key the comment table hands out
    nextUserId,     \* next primary key the user table hands out
    req,            \* the authenticated request in flight, or NoRequest
    resp            \* the response just returned, or NoResponse

vars ==
    <<boards, tasks, comments, nextBoardId, nextTaskId, nextCommentId, nextUserId,
      req, resp>>
db == <<boards, tasks, comments, nextBoardId, nextTaskId, nextCommentId, nextUserId>>

\* The registered users: NumUsers of them are registered from the start.
Users == 1..(nextUserId - 1)
\* User ids a client can send: 0, every registered id, and one unregistered id.
UserIdInputs == 0..(NumUsers + 1)
\* Primary keys a client can address: every key ever handed out and one beyond.
BoardPkInputs == 1..(MaxBoards + 1)
TaskPkInputs == 1..(MaxTasks + 1)
CommentPkInputs == 1..(MaxComments + 1)

NoRequest == [op |-> "none"]
NoResponse == [status |-> 0]

\* ------------------------------------------------------- request payloads
\* A JSON object is a function from its keys; a missing key is not in DOMAIN.
Opt(S) == {{}} \cup {{v} : v \in S}
Field(k, o) == [x \in (IF o = {} THEN {} ELSE {k}) |-> CHOOSE v \in o : TRUE]
Has(d, k) == k \in DOMAIN d
Get(d, k, default) == IF k \in DOMAIN d THEN d[k] ELSE default
Without(d, ks) == [k \in DOMAIN d \ ks |-> d[k]]
SeqsUpTo(S, n) == UNION {[1..k -> S] : k \in 0..n}
Elems(s) == {s[i] : i \in 1..Len(s)}

\* One entry of serializer.errors: the field key, the kind of error, and the
\* ids the message names (only "Invalid user IDs: [...]" names any).
Err(f, c) == [field |-> f, code |-> c, ids |-> {}]
ErrIds(f, c, s) == [field |-> f, code |-> c, ids |-> s]

Response(st, r) == [status |-> st, errors |-> {}, body |-> {}, req |-> r]
ErrorResponse(st, errs, r) == [status |-> st, errors |-> errs, body |-> {}, req |-> r]
BodyResponse(st, b, r) == [status |-> st, errors |-> {}, body |-> b, req |-> r]

\* ------------------------------------------------------------ board model
Board(t, o) == [title |-> t, owner |-> o, members |-> {}]

\* board.owner == user or board.members.filter(id=user.id).exists()
IsOwnerOrMember(user, board) == board.owner = user \/ user \in board.members

\* User.objects.filter(id__in=ids): the registered users among the ids.
UsersWithIdIn(ids) == {u \in Users : u \in Elems(ids)}

\* ------------------------------------------------------- BoardSerializer
validate_members_skip(value) == {}

validate_members(value) ==
    IF value # <<>> /\ Cardinality(UsersWithIdIn(value)) # Len(value)
    THEN {ErrIds("members", "invalid", Elems(value) \ UsersWithIdIn(value))}
    ELSE {}

\* The title CharField: required unless partial, never blank.
BoardTitleErrors(data, partial) ==
    IF ~Has(data, "title")
    THEN (IF partial THEN {} ELSE {Err("title", "required")})
    ELSE (IF data.title = "" THEN {Err("title", "blank")} ELSE {})

\* serializer.is_valid(): the field errors, all collected.
BoardSerializer_errors(data, partial) ==
    BoardTitleErrors(data, partial)
        \cup (IF Has(data, "members") THEN validate_members(data.members) ELSE {})

\* BoardSerializer.create: the row written and whether the body raised after
\* writing it.
BoardSerializer_create(validated_data) ==
    LET member_ids == Get(validated_data, "members", <<>>)
        board == [Board(validated_data.title, validated_data.owner)
                    EXCEPT !.members = {validated_data.owner}]
        valid_users == UsersWithIdIn(member_ids)
    IN  IF member_ids # <<>> /\ Cardinality(valid_users) # Len(member_ids)
        THEN [board |-> board,
              raised |-> {ErrIds("non_field_errors", "invalid",
                                 Elems(member_ids) \ valid_users)}]
        ELSE [board |-> [board EXCEPT !.members = @ \cup valid_users],
              raised |-> {}]

BoardSerializer_update_no_owner(instance, validated_data) ==
    LET titled == [instance EXCEPT !.title = Get(validated_data, "title", instance.title)]
    IN  IF Has(validated_data, "members")
        THEN [titled EXCEPT !.members = UsersWithIdIn(validated_data.members)]
        ELSE titled

BoardSerializer_update(instance, validated_data) ==
    LET titled == [instance EXCEPT !.title = Get(validated_data, "title", instance.title)]
    IN  IF Has(validated_data, "members")
        THEN [titled EXCEPT !.members =
                    {instance.owner} \cup UsersWithIdIn(validated_data.members)]
        ELSE titled

\* ------------------------------------------------- task representations
\* What a response carries of a task row. TaskSerializer.to_representation
\* rewrites the status "reviewing" to "review"; every other field is read as
\* stored.
TaskSerializer_to_representation(instance, rows) ==
    [id |-> instance,
     board |-> rows[instance].board,
     title |-> rows[instance].title,
     description |-> rows[instance].description,
     status |-> IF rows[instance].status = "reviewing" THEN "review"
                ELSE rows[instance].status,
     priority |-> rows[instance].priority,
     assignee |-> rows[instance].assignee,
     reviewer |-> rows[instance].reviewer,
     due_date |-> rows[instance].due_date]

\* TaskPatchResponseSerializer.serialize takes every field from the row as it
\* is stored, the status too.
TaskPatchResponseSerializer_serialize(task, rows) ==
    [id |-> task,
     title |-> rows[task].title,
     description |-> rows[task].description,
     status |-> rows[task].status,
     priority |-> rows[task].priority,
     assignee |-> rows[task].assignee,
     reviewer |-> rows[task].reviewer,
     due_date |-> rows[task].due_date]

\* A queryset is the sequence of the primary keys of its rows, newest first
\* (Task.Meta.ordering is -created_at, and rows are created in pk order).
RECURSIVE Repeat(_, _)
Repeat(x, n) == IF n = 0 THEN <<>> ELSE <<x>> \o Repeat(x, n - 1)

RECURSIVE Distinct(_)
Distinct(s) ==
    IF s = <<>> THEN <<>>
    ELSE IF \E i \in 2..Len(s) : s[i] = Head(s) THEN Distinct(Tail(s))
    ELSE <<Head(s)>> \o Distinct(Tail(s))

RECURSIVE QuerySet(_, _)
\* rows[t] is how many rows of the query task t contributes; pks n down to 1.
QuerySet(rows, n) ==
    IF n = 0 THEN <<>>
    ELSE (IF n \in DOMAIN tasks THEN Repeat(n, rows[n]) ELSE <<>>)
            \o QuerySet(rows, n - 1)

\* TaskSerializer(tasks, many=True).data
TaskSerializer_many(qs) ==
    [i \in 1..Len(qs) |-> TaskSerializer_to_representation(qs[i], tasks)]

\* BoardDetailSerializer.get_tasks: Task.objects.filter(board=obj)
BoardDetailSerializer_get_tasks(obj) ==
    LET rows == [t \in DOMAIN tasks |-> IF tasks[t].board = obj THEN 1 ELSE 0]
    IN  TaskSerializer_many(QuerySet(rows, nextTaskId - 1))

\* ---------------------------------------------------------- BoardViewSet
\* Board.objects.filter(Q(owner=user) | Q(members=user)).distinct()
BoardViewSet_get_queryset(user) ==
    {b \in DOMAIN boards : IsOwnerOrMember(user, boards[b])}

BoardViewSet_list ==
    /\ req.op = "board_list"
    /\ resp' = BodyResponse(HTTP_200_OK, BoardViewSet_get_queryset(req.user), req)
    /\ req' = NoRequest
    /\ UNCHANGED db

BoardViewSet_create ==
    /\ req.op = "board_create"
    /\ LET errs == BoardSerializer_errors(req.data, FALSE)
           made == BoardSerializer_create(req.data @@ [owner |-> req.user])
       IN  IF errs # {}
           THEN /\ resp' = ErrorResponse(HTTP_400_BAD_REQUEST, errs, req)
                /\ UNCHANGED db
           ELSE /\ boards' = boards @@ (nextBoardId :> made.board)
                /\ nextBoardId' = nextBoardId + 1
                /\ resp' = IF made.raised # {}
                           THEN ErrorResponse(HTTP_400_BAD_REQUEST, made.raised, req)
                           ELSE BodyResponse(HTTP_201_CREATED, {nextBoardId}, req)
                /\ UNCHANGED <<tasks, comments, nextTaskId, nextCommentId,
                               nextUserId>>
    /\ req' = NoRequest

\* BoardDetailSerializer(board).data: owner, members and tasks of the board.
BoardDetailSerializer_data(obj) ==
    [id |-> obj,
     owner_id |-> boards[obj].owner,
     members |-> boards[obj].members,
     tasks |-> BoardDetailSerializer_get_tasks(obj)]

\* What BoardViewSet.retrieve answers to request r.
BoardViewSet_retrieve_response(r) ==
    IF r.pk \notin DOMAIN boards
    THEN Response(HTTP_404_NOT_FOUND, r)
    ELSE IF ~IsOwnerOrMember(r.user, boards[r.pk])
    THEN Response(HTTP_403_FORBIDDEN, r)
    ELSE BodyResponse(HTTP_200_OK, BoardDetailSerializer_data(r.pk), r)

BoardViewSet_retrieve ==
    /\ req.op = "board_retrieve"
    /\ resp' = BoardViewSet_retrieve_response(req)
    /\ req' = NoRequest
    /\ UNCHANGED db

BoardViewSet_partial_update_validate_first ==
    /\ req.op = "board_partial_update"
    /\ IF req.pk \notin DOMAIN boards
       THEN /\ resp' = Response(HTTP_404_NOT_FOUND, req)
            /\ UNCHANGED db
       ELSE IF BoardSerializer_errors(req.data, TRUE) # {}
       THEN /\ resp' = ErrorResponse(HTTP_400_BAD_REQUEST,
                                     BoardSerializer_errors(req.data, TRUE), req)
            /\ UNCHANGED db
       ELSE IF ~IsOwnerOrMember(req.user, boards[req.pk])
       THEN /\ resp' = Response(HTTP_403_FORBIDDEN, req)
            /\ UNCHANGED db
       ELSE /\ boards' = [boards EXCEPT ![req.pk] = BoardSerializer_update(@, req.data)]
            /\ resp' = BodyResponse(HTTP_200_OK, {req.pk}, req)
            /\ UNCHANGED <<tasks, comments, nextBoardId, nextTaskId, nextCommentId,
                           nextUserId>>
    /\ req' = NoRequest

BoardViewSet_partial_update ==
    /\ req.op = "board_partial_update"
    /\ IF req.pk \notin DOMAIN boards
       THEN /\ resp' = Response(HTTP_404_NOT_FOUND, req)
            /\ UNCHANGED db
       ELSE IF ~IsOwnerOrMember(req.user, boards[req.pk])
       THEN /\ resp' = Response(HTTP_403_FORBIDDEN, req)
            /\ UNCHANGED db
       ELSE IF BoardSerializer_errors(req.data, TRUE) # {}
       THEN /\ resp' = ErrorResponse(HTTP_400_BAD_REQUEST,
                                     BoardSerializer_errors(req.data, TRUE), req)
            /\ UNCHANGED db
       ELSE /\ boards' = [boards EXCEPT ![req.pk] = BoardSerializer_update(@, req.data)]
            /\ resp' = BodyResponse(HTTP_200_OK, {req.pk}, req)
            /\ UNCHANGED <<tasks, comments, nextBoardId, nextTaskId, nextCommentId,
                           nextUserId>>
    /\ req' = NoRequest

\* on_delete=CASCADE from Task.board and from Comment.task.
TasksOfBoards_no_cascade(bs) == {}

TasksOfBoards(bs) == {t \in DOMAIN tasks : tasks[t].board \in bs}
CommentsOfTasks(ts) == {c \in DOMAIN comments : comments[c].task \in ts}
Remove(table, pks) == [k \in DOMAIN table \ pks |-> table[k]]

BoardViewSet_destroy ==
    /\ req.op = "board_destroy"
    /\ IF req.pk \notin DOMAIN boards
       THEN /\ resp' = Response(HTTP_404_NOT_FOUND, req)
            /\ UNCHANGED db
       ELSE IF ~IsOwnerOrMember(req.user, boards[req.pk])
       THEN /\ resp' = Response(HTTP_403_FORBIDDEN, req)
            /\ UNCHANGED db
       ELSE IF boards[req.pk].owner # req.user
       THEN /\ resp' = Response(HTTP_403_FORBIDDEN, req)
            /\ UNCHANGED db
       ELSE /\ boards' = Remove(boards, {req.pk})
            /\ tasks' = Remove(tasks, TasksOfBoards({req.pk}))
            /\ comments' = Remove(comments, CommentsOfTasks(TasksOfBoards({req.pk})))
            /\ resp' = Response(HTTP_204_NO_CONTENT, req)
            /\ UNCHANGED <<nextBoardId, nextTaskId, nextCommentId, nextUserId>>
    /\ req' = NoRequest

\* ------------------------------------------------------------- task model
STATUS_CHOICES == {"to-do", "in-progress", "review", "done"}
PRIORITY_CHOICES == {"low", "medium", "high"}

\* A due_date is an ISO date string; NoDate is the NULL of the column.
NoDate == "null"

\* Task.objects.create(**validated_data): the model's defaults fill the rest.
Task(validated_data) ==
    [board |-> validated_data.board,
     title |-> validated_data.title,
     description |-> Get(validated_data, "description", ""),
     status |-> Get(validated_data, "status", "to-do"),
     priority |-> Get(validated_data, "priority", "medium"),
     due_date |-> Get(validated_data, "due_date", NoDate),
     assignee |-> None,
     reviewer |-> None]

Comment(t, a, c) == [task |-> t, author |-> a, content |-> c]

\* -------------------------------------------------------- TaskSerializer
\* The board PrimaryKeyRelatedField, then validate_board on the row it found.
validate_board(data, partial, user) ==
    IF ~Has(data, "board")
    THEN (IF partial THEN {} ELSE {Err("board", "required")})
    ELSE IF data.board \notin DOMAIN boards
    THEN {Err("board", "does_not_exist")}
    ELSE IF ~IsOwnerOrMember(user, boards[data.board])
    THEN {Err("board", "not_member")}
    ELSE {}

TaskTitleErrors(data, partial) ==
    IF ~Has(data, "title")
    THEN (IF partial THEN {} ELSE {Err("title", "required")})
    ELSE (IF data.title = "" THEN {Err("title", "blank")} ELSE {})

validate_status_any(data) == {}

validate_status(data) ==
    IF Has(data, "status") /\ data.status \notin STATUS_CHOICES
    THEN {Err("status", "invalid_choice")}
    ELSE {}

validate_priority(data) ==
    IF Has(data, "priority") /\ data.priority \notin PRIORITY_CHOICES
    THEN {Err("priority", "invalid_choice")}
    ELSE {}

\* The due_date DateField: null or an ISO date.
DueDateErrors(data) ==
    IF Has(data, "due_date") /\ data.due_date = "not-a-date"
    THEN {Err("due_date", "invalid")}
    ELSE {}

validate_assignee_id(data) ==
    IF Has(data, "assignee_id") /\ data.assignee_id # None
        /\ data.assignee_id \notin Users
    THEN {Err("assignee_id", "does_not_exist")}
    ELSE {}

validate_reviewer_id(data) ==
    IF Has(data, "reviewer_id") /\ data.reviewer_id # None
        /\ data.reviewer_id \notin Users
    THEN {Err("reviewer_id", "does_not_exist")}
    ELSE {}

TaskFieldErrors(data, partial, user) ==
    validate_board(data, partial, user)
        \cup TaskTitleErrors(data, partial)
        \cup validate_status(data)
        \cup validate_priority(data)
        \cup DueDateErrors(data)
        \cup validate_assignee_id(data)
        \cup validate_reviewer_id(data)

\* Python truthiness of an id: neither None nor 0.
Truthy(id) == id # None /\ id # 0

TaskSerializer_validate_skip(attrs) == [errors |-> {}, fault |-> FALSE]

\* TaskSerializer.validate: the cross-field check. board is attrs.get('board'),
\* None when the request carries no board; board.owner on None is an
\* AttributeError, which is_valid() does not catch (fault).
TaskSerializer_validate(attrs) ==
    LET board == Get(attrs, "board", None)
        assignee_id == Get(attrs, "assignee_id", None)
        reviewer_id == Get(attrs, "reviewer_id", None)
    IN  IF Truthy(assignee_id) /\ board = None
        THEN [errors |-> {}, fault |-> TRUE]
        ELSE IF Truthy(assignee_id) /\ ~IsOwnerOrMember(assignee_id, boards[board])
        THEN [errors |-> {Err("assignee_id", "not_member")}, fault |-> FALSE]
        ELSE IF Truthy(reviewer_id) /\ board = None
        THEN [errors |-> {}, fault |-> TRUE]
        ELSE IF Truthy(reviewer_id) /\ ~IsOwnerOrMember(reviewer_id, boards[board])
        THEN [errors |-> {Err("reviewer_id", "not_member")}, fault |-> FALSE]
        ELSE [errors |-> {}, fault |-> FALSE]

\* serializer.is_valid(): field errors first; validate() only without any.
TaskSerializer_is_valid(data, partial, user) ==
    IF TaskFieldErrors(data, partial, user) # {}
    THEN [errors |-> TaskFieldErrors(data, partial, user), fault |-> FALSE]
    ELSE TaskSerializer_validate(data)

TaskSerializer_create(validated_data) ==
    LET assignee_id == Get(validated_data, "assignee_id", None)
        reviewer_id == Get(validated_data, "reviewer_id", None)
        task == Task(Without(validated_data, {"assignee_id", "reviewer_id"}))
    IN  [task EXCEPT
            !.assignee = IF Truthy(assignee_id) THEN assignee_id ELSE @,
            !.reviewer = IF Truthy(reviewer_id) THEN reviewer_id ELSE @]

TaskSerializer_update_resets_omitted(instance, validated_data) ==
    LET assignee_id == Get(validated_data, "assignee_id", None)
        reviewer_id == Get(validated_data, "reviewer_id", None)
    IN  [instance EXCEPT
            !.title = Get(validated_data, "title", @),
            !.description = Get(validated_data, "description", ""),
            !.status = Get(validated_data, "status", @),
            !.priority = Get(validated_data, "priority", @),
            !.due_date = Get(validated_data, "due_date", @),
            !.assignee = IF assignee_id = None \/ assignee_id = 0 THEN None
                         ELSE assignee_id,
            !.reviewer = IF reviewer_id = None THEN @
                         ELSE IF reviewer_id = 0 THEN None ELSE reviewer_id]

TaskSerializer_update_moves_board(instance, validated_data) ==
    LET assignee_id == Get(validated_data, "assignee_id", None)
        reviewer_id == Get(validated_data, "reviewer_id", None)
    IN  [instance EXCEPT
            !.board = Get(validated_data, "board", @),
            !.title = Get(validated_data, "title", @),
            !.description = Get(validated_data, "description", @),
            !.status = Get(validated_data, "status", @),
            !.priority = Get(validated_data, "priority", @),
            !.due_date = Get(validated_data, "due_date", @),
            !.assignee = IF assignee_id = None THEN @
                         ELSE IF assignee_id = 0 THEN None ELSE assignee_id,
            !.reviewer = IF reviewer_id = None THEN @
                         ELSE IF reviewer_id = 0 THEN None ELSE reviewer_id]

TaskSerializer_update(instance, validated_data) ==
    LET assignee_id == Get(validated_data, "assignee_id", None)
        reviewer_id == Get(validated_data, "reviewer_id", None)
    IN  [instance EXCEPT
            !.title = Get(validated_data, "title", @),
            !.description = Get(validated_data, "description", @),
            !.status = Get(validated_data, "status", @),
            !.priority = Get(validated_data, "priority", @),
            !.due_date = Get(validated_data, "due_date", @),
            !.assignee = IF assignee_id = None THEN @
                         ELSE IF assignee_id = 0 THEN None ELSE assignee_id,
            !.reviewer = IF reviewer_id = None THEN @
                         ELSE IF reviewer_id = 0 THEN None ELSE reviewer_id]

\* The content TextField of CommentSerializer: required, never blank.
CommentSerializer_errors(data) ==
    IF ~Has(data, "content") THEN {Err("content", "required")}
    ELSE IF data.content = "" THEN {Err("content", "blank")}
    ELSE {}

\* ----------------------------------------------------------- TaskViewSet
\* Task.objects.filter(Q(board__owner=user) | Q(board__members=user)): the
\* filter on board__members joins the membership table, so a task comes once
\* for every membership row of its board on which the condition holds (once
\* at most when the board has no membership row).
JoinRows(user, t) ==
    LET board == boards[tasks[t].board]
    IN  IF board.members = {}
        THEN (IF board.owner = user THEN 1 ELSE 0)
        ELSE Cardinality({m \in board.members : board.owner = user \/ m = user})

TaskViewSet_get_queryset_no_distinct(user) ==
    QuerySet([t \in DOMAIN tasks |-> JoinRows(user, t)], nextTaskId - 1)

\* ... .distinct()
TaskViewSet_get_queryset(user) ==
    Distinct(QuerySet([t \in DOMAIN tasks |-> JoinRows(user, t)], nextTaskId - 1))

TaskViewSet_create ==
    /\ req.op = "task_create"
    /\ LET valid == TaskSerializer_is_valid(req.data, FALSE, req.user)
       IN  IF valid.fault
           THEN /\ resp' = Response(HTTP_500_INTERNAL_SERVER_ERROR, req)
                /\ UNCHANGED db
           ELSE IF valid.errors # {}
           THEN /\ resp' = ErrorResponse(HTTP_400_BAD_REQUEST, valid.errors, req)
                /\ UNCHANGED db
           ELSE /\ tasks' = tasks @@ (nextTaskId :> TaskSerializer_create(req.data))
                /\ nextTaskId' = nextTaskId + 1
                /\ resp' = BodyResponse(HTTP_201_CREATED,
                                TaskSerializer_to_representation(nextTaskId, tasks'), req)
                /\ UNCHANGED <<boards, comments, nextBoardId, nextCommentId,
                               nextUserId>>
    /\ req' = NoRequest

TaskViewSet_partial_update ==
    /\ req.op = "task_partial_update"
    /\ IF req.pk \notin DOMAIN tasks
       THEN /\ resp' = Response(HTTP_404_NOT_FOUND, req)
            /\ UNCHANGED db
       ELSE IF ~IsOwnerOrMember(req.user, boards[tasks[req.pk].board])
       THEN /\ resp' = Response(HTTP_403_FORBIDDEN, req)
            /\ UNCHANGED db
       ELSE LET valid == TaskSerializer_is_valid(req.data, TRUE, req.user)
            IN  IF valid.fault
                THEN /\ resp' = Response(HTTP_500_INTERNAL_SERVER_ERROR, req)
                     /\ UNCHANGED db
                ELSE IF valid.errors # {}
                THEN /\ resp' = ErrorResponse(HTTP_400_BAD_REQUEST, valid.errors, req)
                     /\ UNCHANGED db
                ELSE /\ tasks' = [tasks EXCEPT
                                    ![req.pk] = TaskSerializer_update(@, req.data)]
                     /\ resp' = BodyResponse(HTTP_200_OK,
                            TaskPatchResponseSerializer_serialize(req.pk, tasks'),
                            req)
                     /\ UNCHANGED <<boards, comments, nextBoardId, nextTaskId,
                                    nextCommentId, nextUserId>>
    /\ req' = NoRequest

TaskViewSet_destroy_any_member ==
    /\ req.op = "task_destroy"
    /\ IF req.pk \notin DOMAIN tasks
       THEN /\ resp' = Response(HTTP_404_NOT_FOUND, req)
            /\ UNCHANGED db
       ELSE IF ~IsOwnerOrMember(req.user, boards[tasks[req.pk].board])
       THEN /\ resp' = Response(HTTP_403_FORBIDDEN, req)
            /\ UNCHANGED db
       ELSE /\ tasks' = Remove(tasks, {req.pk})
            /\ comments' = Remove(comments, CommentsOfTasks({req.pk}))
            /\ resp' = Response(HTTP_204_NO_CONTENT, req)
            /\ UNCHANGED <<boards, nextBoardId, nextTaskId, nextCommentId,
                           nextUserId>>
    /\ req' = NoRequest

TaskViewSet_destroy ==
    /\ req.op = "task_destroy"
    /\ IF req.pk \notin DOMAIN tasks
       THEN /\ resp' = Response(HTTP_404_NOT_FOUND, req)
            /\ UNCHANGED db
       ELSE IF ~IsOwnerOrMember(req.user, boards[tasks[req.pk].board])
       THEN /\ resp' = Response(HTTP_403_FORBIDDEN, req)
            /\ UNCHANGED db
       ELSE IF boards[tasks[req.pk].board].owner # req.user
       THEN /\ resp' = Response(HTTP_403_FORBIDDEN, req)
            /\ UNCHANGED db
       ELSE /\ tasks' = Remove(tasks, {req.pk})
            /\ comments' = Remove(comments, CommentsOfTasks({req.pk}))
            /\ resp' = Response(HTTP_204_NO_CONTENT, req)
            /\ UNCHANGED <<boards, nextBoardId, nextTaskId, nextCommentId,
                           nextUserId>>
    /\ req' = NoRequest

TaskViewSet_comments ==
    /\ req.op = "comments"
    /\ IF req.pk \notin DOMAIN tasks
       THEN /\ resp' = Response(HTTP_404_NOT_FOUND, req)
            /\ UNCHANGED db
       ELSE IF ~IsOwnerOrMember(req.user, boards[tasks[req.pk].board])
       THEN /\ resp' = Response(HTTP_403_FORBIDDEN, req)
            /\ UNCHANGED db
       ELSE IF req.method = "GET"
       THEN /\ resp' = BodyResponse(HTTP_200_OK, CommentsOfTasks({req.pk}), req)
            /\ UNCHANGED db
       ELSE IF CommentSerializer_errors(req.data) # {}
       THEN /\ resp' = ErrorResponse(HTTP_400_BAD_REQUEST,
                                     CommentSerializer_errors(req.data), req)
            /\ UNCHANGED db
       ELSE /\ comments' = comments @@
                    (nextCommentId :> Comment(req.pk, req.user, req.data.content))
            /\ nextCommentId' = nextCommentId + 1
            /\ resp' = BodyResponse(HTTP_201_CREATED, {nextCommentId}, req)
            /\ UNCHANGED <<boards, tasks, nextBoardId, nextTaskId, nextUserId>>
    /\ req' = NoRequest

TaskViewSet_delete_comment_owner_too ==
    /\ req.op = "delete_comment"
    /\ IF req.pk \notin DOMAIN tasks
       THEN /\ resp' = Response(HTTP_404_NOT_FOUND, req)
            /\ UNCHANGED db
       ELSE IF ~IsOwnerOrMember(req.user, boards[tasks[req.pk].board])
       THEN /\ resp' = Response(HTTP_403_FORBIDDEN, req)
            /\ UNCHANGED db
       ELSE IF ~(req.comment_id \in DOMAIN comments
                    /\ comments[req.comment_id].task = req.pk)
       THEN /\ resp' = Response(HTTP_404_NOT_FOUND, req)
            /\ UNCHANGED db
       ELSE IF comments[req.comment_id].author # req.user
                /\ boards[tasks[req.pk].board].owner # req.user
       THEN /\ resp' = Response(HTTP_403_FORBIDDEN, req)
            /\ UNCHANGED db
       ELSE /\ comments' = Remove(comments, {req.comment_id})
            /\ resp' = Response(HTTP_204_NO_CONTENT, req)
            /\ UNCHANGED <<boards, tasks, nextBoardId, nextTaskId, nextCommentId,
                           nextUserId>>
    /\ req' = NoRequest

TaskViewSet_delete_comment_author_first ==
    /\ req.op = "delete_comment"
    /\ IF req.pk \notin DOMAIN tasks
       THEN /\ resp' = Response(HTTP_404_NOT_FOUND, req)
            /\ UNCHANGED db
       ELSE IF ~(req.comment_id \in DOMAIN comments
                    /\ comments[req.comment_id].task = req.pk)
       THEN /\ resp' = Response(HTTP_404_NOT_FOUND, req)
            /\ UNCHANGED db
       ELSE IF comments[req.comment_id].author # req.user
       THEN /\ resp' = Response(HTTP_403_FORBIDDEN, req)
            /\ UNCHANGED db
       ELSE /\ comments' = Remove(comments, {req.comment_id})
            /\ resp' = Response(HTTP_204_NO_CONTENT, req)
            /\ UNCHANGED <<boards, tasks, nextBoardId, nextTaskId, nextCommentId,
                           nextUserId>>
    /\ req' = NoRequest

TaskViewSet_delete_comment ==
    /\ req.op = "delete_comment"
    /\ IF req.pk \notin DOMAIN tasks
       THEN /\ resp' = Response(HTTP_404_NOT_FOUND, req)
            /\ UNCHANGED db
       ELSE IF ~IsOwnerOrMember(req.user, boards[tasks[req.pk].board])
       THEN /\ resp' = Response(HTTP_403_FORBIDDEN, req)
            /\ UNCHANGED db
       ELSE IF ~(req.comment_id \in DOMAIN comments
                    /\ comments[req.comment_id].task = req.pk)
       THEN /\ resp' = Response(HTTP_404_NOT_FOUND, req)
            /\ UNCHANGED db
       ELSE IF comments[req.comment_id].author # req.user
       THEN /\ resp' = Response(HTTP_403_FORBIDDEN, req)
            /\ UNCHANGED db
       ELSE /\ comments' = Remove(comments, {req.comment_id})
            /\ resp' = Response(HTTP_204_NO_CONTENT, req)
            /\ UNCHANGED <<boards, tasks, nextBoardId, nextTaskId, nextCommentId,
                           nextUserId>>
    /\ req' = NoRequest

TaskViewSet_assigned_to_me ==
    /\ req.op = "assigned_to_me"
    /\ LET Assigned(t) == tasks[t].assignee = req.user
       IN  resp' = BodyResponse(HTTP_200_OK,
                TaskSerializer_many(
                    SelectSeq(TaskViewSet_get_queryset(req.user), Assigned)), req)
    /\ req' = NoRequest
    /\ UNCHANGED db

TaskViewSet_reviewing ==
    /\ req.op = "reviewing"
    /\ LET Reviewed(t) == tasks[t].reviewer = req.user
       IN  resp' = BodyResponse(HTTP_200_OK,
                TaskSerializer_many(
                    SelectSeq(TaskViewSet_get_queryset(req.user), Reviewed)), req)
    /\ req' = NoRequest
    /\ UNCHANGED db

\* ------------------------------------------------------------ the clients
\* The payloads the clients send. Each set holds well-formed and malformed
\* payloads; "" is a blank string, NumUsers + 1 an unregistered user id, and
\* MaxBoards + 1 a board pk that is never handed out.
BoardTitles == {"A", "B", ""}
MemberLists == SeqsUpTo(1..(NumUsers + 1), MaxMembersLen)
BoardPayloads(titles, lists) ==
    {Field("title", t) @@ Field("members", m) : t \in Opt(titles), m \in Opt(lists)}

\* Task payloads carry board and title; the assignee/reviewer part is one of
\* the given pairs of optional ids.
TaskPayloads(bs, titles, idPairs) ==
    {Field("board", b) @@ Field("title", t)
        @@ Field("assignee_id", p[1]) @@ Field("reviewer_id", p[2]) :
        b \in bs, t \in titles, p \in idPairs}

CommentPayloads == {Field("content", c) : c \in Opt({"c", ""})}

BoardReads(users) ==
    {[op |-> "board_list", user |-> u] : u \in users}
    \cup {[op |-> "board_retrieve", user |-> u, pk |-> b] :
            u \in users, b \in BoardPkInputs}

BoardCreates(users, payloads) ==
    {[op |-> "board_create", user |-> u, data |-> d] :
        u \in (IF nextBoardId <= MaxBoards THEN users ELSE {}), d \in payloads}

BoardPatches(users, payloads) ==
    {[op |-> "board_partial_update", user |-> u, pk |-> b, data |-> d] :
        u \in users, b \in BoardPkInputs, d \in payloads}

BoardDestroys(users) ==
    {[op |-> "board_destroy", user |-> u, pk |-> b] : u \in users, b \in BoardPkInputs}

TaskCreates(users, payloads) ==
    {[op |-> "task_create", user |-> u, data |-> d] :
        u \in (IF nextTaskId <= MaxTasks THEN users ELSE {}), d \in payloads}

TaskPatches(users, payloads) ==
    {[op |-> "task_partial_update", user |-> u, pk |-> t, data |-> d] :
        u \in users, t \in TaskPkInputs, d \in payloads}

TaskDestroys(users) ==
    {[op |-> "task_destroy", user |-> u, pk |-> t] : u \in users, t \in TaskPkInputs}

TaskLists(users) ==
    {[op |-> o, user |-> u] : o \in {"assigned_to_me", "reviewing"}, u \in users}

CommentReads(users) ==
    {[op |-> "comments", method |-> "GET", user |-> u, pk |-> t, data |-> <<>>] :
        u \in users, t \in TaskPkInputs}

CommentPosts(users) ==
    {[op |-> "comments", method |-> "POST", user |-> u, pk |-> t, data |-> d] :
        u \in (IF nextCommentId <= MaxComments THEN users ELSE {}),
        t \in TaskPkInputs, d \in CommentPayloads}

CommentDeletes(users) ==
    {[op |-> "delete_comment", user |-> u, pk |-> t, comment_id |-> c] :
        u \in users, t \in TaskPkInputs, c \in CommentPkInputs}

\* A client sends one request; the server handles one request at a time.
Send(requests) ==
    /\ req = NoRequest /\ resp = NoResponse
    /\ req' \in requests
    /\ UNCHANGED <<db, resp>>

\* The client takes the response.
Deliver ==
    /\ resp # NoResponse
    /\ resp' = NoResponse
    /\ UNCHANGED <<db, req>>

Init ==
    /\ boards = <<>>
    /\ tasks = <<>>
    /\ comments = <<>>
    /\ nextBoardId = 1
    /\ nextTaskId = 1
    /\ nextCommentId = 1
    /\ nextUserId = NumUsers + 1
    /\ req = NoRequest
    /\ resp = NoResponse

BoardHandlers ==
    \/ BoardViewSet_list
    \/ BoardViewSet_create
    \/ BoardViewSet_retrieve
    \/ BoardViewSet_partial_update
    \/ BoardViewSet_destroy

\* --- the board endpoints alone, with every title and member list
BoardRequests ==
    BoardReads(Users)
        \cup BoardCreates(Users, BoardPayloads(BoardTitles, MemberLists))
        \cup BoardPatches(Users, BoardPayloads(BoardTitles, MemberLists))
        \cup BoardDestroys(Users)

SendBoardRequest == Send(BoardRequests)

NextBoards == SendBoardRequest \/ BoardHandlers \/ Deliver

SpecBoards == Init /\ [][NextBoards]_vars

\* --- boards, tasks and comments: who may read, change and delete what
AccessBoardPayloads == BoardPayloads({"A", ""}, SeqsUpTo(1..(NumUsers + 1), 1))
AccessTaskPayloads ==
    TaskPayloads(Opt(BoardPkInputs), Opt({"T", ""}), {<<{}, {}>>})

AccessRequests ==
    BoardReads(Users)
        \cup BoardCreates(Users, AccessBoardPayloads)
        \cup BoardPatches(Users, AccessBoardPayloads)
        \cup BoardDestroys(Users)
        \cup TaskCreates(Users, AccessTaskPayloads)
        \cup TaskPatches(Users, AccessTaskPayloads)
        \cup TaskDestroys(Users)
        \cup CommentReads(Users)
        \cup CommentPosts(Users)
        \cup CommentDeletes(Users)

SendAccessRequest == Send(AccessRequests)

NextAccess ==
    \/ SendAccessRequest
    \/ BoardHandlers
    \/ TaskViewSet_create
    \/ TaskViewSet_partial_update
    \/ TaskViewSet_destroy
    \/ TaskViewSet_comments
    \/ TaskViewSet_delete_comment
    \/ Deliver

SpecAccess == Init /\ [][NextAccess]_vars

\* --- boards and tasks: who may be assignee and reviewer
\* The assignee_id/reviewer_id parts: one id of any kind (null, 0, registered,
\* unregistered) for the assignee or for the reviewer, or neither.
TaskIdInputs == {None} \cup UserIdInputs
TaskIdPairs ==
    {<<a, {}>> : a \in Opt(TaskIdInputs)} \cup {<<{}, r>> : r \in Opt(TaskIdInputs)}

AssignBoardPayloads == BoardPayloads({"A"}, SeqsUpTo(Users, 1))
AssignTaskCreatePayloads == TaskPayloads(Opt(BoardPkInputs), Opt({"T"}), TaskIdPairs)
AssignTaskPatchPayloads == TaskPayloads(Opt(BoardPkInputs), {{}}, TaskIdPairs)

AssignRequests ==
    BoardCreates(Users, AssignBoardPayloads)
        \cup BoardPatches(Users, AssignBoardPayloads)
        \cup TaskCreates(Users, AssignTaskCreatePayloads)
        \cup TaskPatches(Users, AssignTaskPatchPayloads)
        \cup TaskLists(Users)

SendAssignRequest == Send(AssignRequests)

NextAssign ==
    \/ SendAssignRequest
    \/ BoardViewSet_create
    \/ BoardViewSet_partial_update
    \/ TaskViewSet_create
    \/ TaskViewSet_partial_update
    \/ TaskViewSet_assigned_to_me
    \/ TaskViewSet_reviewing
    \/ Deliver

SpecAssign == Init /\ [][NextAssign]_vars

\* --- one board and its tasks: every field a task create and PATCH can carry
\* Any subset of the optional keys, each with one value that differs from the
\* model default; "reviewing" is the status the frontend used to send.
TaskFieldParts ==
    {Field("description", d) @@ Field("status", s) @@ Field("priority", p)
        @@ Field("due_date", dd) @@ Field("assignee_id", a)
        @@ Field("reviewer_id", r) :
        d \in Opt({"e"}), s \in Opt({"review", "reviewing", "done"}),
        p \in Opt({"high"}), dd \in Opt({"2026-01-01"}),
        a \in Opt({1}), r \in Opt({NumUsers})}

FieldBoardPayloads == {Field("title", {"A"}) @@ Field("members", {<<NumUsers>>})}
FieldTaskCreatePayloads ==
    {Field("board", {1}) @@ Field("title", {"T"}) @@ x : x \in TaskFieldParts}
FieldTaskPatchPayloads ==
    {Field("board", b) @@ Field("title", t) @@ x :
        b \in Opt({1}), t \in Opt({"U"}), x \in TaskFieldParts}

FieldRequests ==
    BoardCreates({1}, FieldBoardPayloads)
        \cup BoardReads(Users)
        \cup {[op |-> "task_create", user |-> u, data |-> d] :
                u \in (IF nextTaskId <= MaxFieldTasks THEN Users ELSE {}),
                d \in FieldTaskCreatePayloads}
        \cup {[op |-> "task_partial_update", user |-> u, pk |-> t, data |-> d] :
                u \in Users, t \in 1..(MaxFieldTasks + 1),
                d \in FieldTaskPatchPayloads}
        \cup TaskLists(Users)

SendFieldRequest == Send(FieldRequests)

NextFields ==
    \/ SendFieldRequest
    \/ BoardViewSet_create
    \/ BoardViewSet_list
    \/ BoardViewSet_retrieve
    \/ TaskViewSet_create
    \/ TaskViewSet_partial_update
    \/ TaskViewSet_assigned_to_me
    \/ TaskViewSet_reviewing
    \/ Deliver

SpecFields == Init /\ [][NextFields]_vars

\* --- board requests served concurrently
\* NumWorkers server workers each serve one request at a time. BoardSerializer
\* create and update issue their statements one by one and nothing in the
\* source opens a transaction (no transaction.atomic, no ATOMIC_REQUESTS), so
\* every statement commits by itself and the other workers see its effect.
\* While requests are served concurrently, req holds the request of every
\* worker and where the worker is in its view (pc).
Workers == 1..NumWorkers
Idle == [op |-> "idle"]
Work == IF req = NoRequest THEN [w \in Workers |-> Idle] ELSE req.work
Serving(work) ==
    IF \A w \in Workers : work[w] = Idle THEN NoRequest
    ELSE [op |-> "concurrent", work |-> work]

At(w, op, pc) == Work[w].op = op /\ Work[w].pc = pc
Goto(w, pc) == req' = Serving([Work EXCEPT ![w].pc = pc])
Return(w, response) ==
    /\ resp = NoResponse
    /\ resp' = response
    /\ req' = Serving([Work EXCEPT ![w] = Idle])

\* An idle worker takes a request.
Receive(requests) ==
    \E w \in Workers :
        /\ Work[w] = Idle
        /\ \E r \in requests :
                req' = Serving([Work EXCEPT ![w] = r @@ [pc |-> "begin"]])
        /\ UNCHANGED <<db, resp>>

\* BoardViewSet.retrieve reads the board once.
Concurrent_retrieve ==
    \E w \in Workers :
        /\ At(w, "board_retrieve", "begin")
        /\ Return(w, BoardViewSet_retrieve_response(Work[w]))
        /\ UNCHANGED db

\* BoardViewSet.create up to Board.objects.create(**validated_data).
Concurrent_create_begin ==
    \E w \in Workers :
        /\ At(w, "board_create", "begin")
        /\ LET r == Work[w]
               errs == BoardSerializer_errors(r.data, FALSE)
           IN  IF errs # {}
               THEN /\ Return(w, ErrorResponse(HTTP_400_BAD_REQUEST, errs, r))
                    /\ UNCHANGED db
               ELSE /\ boards' = boards @@ (nextBoardId :> Board(r.data.title, r.user))
                    /\ nextBoardId' = nextBoardId + 1
                    /\ req' = Serving([Work EXCEPT ![w] =
                                [r EXCEPT !.pc = "add_owner"] @@ [pk |-> nextBoardId]])
                    /\ UNCHANGED <<tasks, comments, nextTaskId, nextCommentId,
                                   nextUserId, resp>>

\* board.members.add(board.owner)
Concurrent_create_add_owner ==
    \E w \in Workers :
        /\ At(w, "board_create", "add_owner")
        /\ boards' = [boards EXCEPT
                        ![Work[w].pk].members = @ \cup {boards[Work[w].pk].owner}]
        /\ Goto(w, "add_users")
        /\ UNCHANGED <<tasks, comments, nextBoardId, nextTaskId, nextCommentId,
                       nextUserId, resp>>

\* if member_ids: ... board.members.add(*valid_users); then the 201.
Concurrent_create_add_users ==
    \E w \in Workers :
        /\ At(w, "board_create", "add_users")
        /\ LET r == Work[w]
               member_ids == Get(r.data, "members", <<>>)
               valid_users == UsersWithIdIn(member_ids)
           IN  IF member_ids # <<>> /\ Cardinality(valid_users) # Len(member_ids)
               THEN /\ Return(w, ErrorResponse(HTTP_400_BAD_REQUEST,
                            {ErrIds("non_field_errors", "invalid",
                                    Elems(member_ids) \ valid_users)}, r))
                    /\ UNCHANGED db
               ELSE /\ boards' = [boards EXCEPT ![r.pk].members = @ \cup valid_users]
                    /\ Return(w, BodyResponse(HTTP_201_CREATED, {r.pk}, r))
                    /\ UNCHANGED <<tasks, comments, nextBoardId, nextTaskId,
                                   nextCommentId, nextUserId>>

\* BoardViewSet.partial_update up to serializer.is_valid(): the board is
\* loaded (its title with it), then permission and payload are checked.
Concurrent_partial_update_begin ==
    \E w \in Workers :
        /\ At(w, "board_partial_update", "begin")
        /\ LET r == Work[w]
           IN  IF r.pk \notin DOMAIN boards
               THEN Return(w, Response(HTTP_404_NOT_FOUND, r)) /\ UNCHANGED db
               ELSE IF ~IsOwnerOrMember(r.user, boards[r.pk])
               THEN Return(w, Response(HTTP_403_FORBIDDEN, r)) /\ UNCHANGED db
               ELSE IF BoardSerializer_errors(r.data, TRUE) # {}
               THEN /\ Return(w, ErrorResponse(HTTP_400_BAD_REQUEST,
                                    BoardSerializer_errors(r.data, TRUE), r))
                    /\ UNCHANGED db
               ELSE /\ req' = Serving([Work EXCEPT ![w] =
                            [r EXCEPT !.pc = "save"] @@ [title |-> boards[r.pk].title]])
                    /\ UNCHANGED <<db, resp>>

\* instance.title = validated_data.get('title', instance.title); instance.save()
Concurrent_update_save ==
    \E w \in Workers :
        /\ At(w, "board_partial_update", "save")
        /\ LET r == Work[w]
           IN  /\ boards' = [boards EXCEPT ![r.pk].title = Get(r.data, "title", r.title)]
               /\ Goto(w, IF Has(r.data, "members") THEN "clear" ELSE "respond")
        /\ UNCHANGED <<tasks, comments, nextBoardId, nextTaskId, nextCommentId,
                       nextUserId, resp>>

\* instance.members.clear()
Concurrent_update_clear ==
    \E w \in Workers :
        /\ At(w, "board_partial_update", "clear")
        /\ boards' = [boards EXCEPT ![Work[w].pk].members = {}]
        /\ Goto(w, "add_owner")
        /\ UNCHANGED <<tasks, comments, nextBoardId, nextTaskId, nextCommentId,
                       nextUserId, resp>>

\* instance.members.add(instance.owner)
Concurrent_update_add_owner ==
    \E w \in Workers :
        /\ At(w, "board_partial_update", "add_owner")
        /\ boards' = [boards EXCEPT
                        ![Work[w].pk].members = @ \cup {boards[Work[w].pk].owner}]
        /\ Goto(w, "add_users")
        /\ UNCHANGED <<tasks, comments, nextBoardId, nextTaskId, nextCommentId,
                       nextUserId, resp>>

\* if valid_users.exists(): instance.members.add(*valid_users)
Concurrent_update_add_users ==
    \E w \in Workers :
        /\ At(w, "board_partial_update", "add_users")
        /\ boards' = [boards EXCEPT
                        ![Work[w].pk].members = @ \cup UsersWithIdIn(Work[w].data.members)]
        /\ Goto(w, "respond")
        /\ UNCHANGED <<tasks, comments, nextBoardId, nextTaskId, nextCommentId,
                       nextUserId, resp>>

\* BoardViewSet.partial_update after serializer.save(): the 200.
Concurrent_partial_update_respond ==
    \E w \in Workers :
        /\ At(w, "board_partial_update", "respond")
        /\ Return(w, BodyResponse(HTTP_200_OK, {Work[w].pk}, Work[w]))
        /\ UNCHANGED db

\* RegistrationSerializer.validate: the two password fields must match.
RegistrationSerializer_errors(data) ==
    IF data.password # data.repeated_password
    THEN {Err("password", "mismatch")}
    ELSE {}

\* RegistrationView.post: a valid payload creates the user.
Concurrent_registration ==
    \E w \in Workers :
        /\ At(w, "registration", "begin")
        /\ LET r == Work[w]
               errs == RegistrationSerializer_errors(r.data)
           IN  IF errs # {}
               THEN /\ Return(w, ErrorResponse(HTTP_400_BAD_REQUEST, errs, r))
                    /\ UNCHANGED db
               ELSE /\ nextUserId' = nextUserId + 1
                    /\ Return(w, BodyResponse(HTTP_201_CREATED, {nextUserId}, r))
                    /\ UNCHANGED <<boards, tasks, comments, nextBoardId, nextTaskId,
                                   nextCommentId>>

\* User 1 creates boards, with user NumUsers as a member or alone; both
\* replace the members of a board, by nobody or by user NumUsers, and read it.
ConcurrentLists == {<<>>, <<NumUsers>>}
ConcurrentRequests ==
    {[op |-> "board_create", user |-> 1, data |-> d] :
            d \in (IF nextBoardId <= MaxConcurrentBoards
                   THEN BoardPayloads({"A"}, {<<NumUsers>>}) ELSE {})}
        \cup {[op |-> "board_partial_update", user |-> u, pk |-> b, data |-> d] :
                u \in Users, b \in 1..MaxConcurrentBoards,
                d \in BoardPayloads({}, ConcurrentLists)}
        \cup {[op |-> "board_retrieve", user |-> u, pk |-> b] :
                u \in Users, b \in 1..MaxConcurrentBoards}

ReceiveConcurrentRequest == Receive(ConcurrentRequests)

NextConcurrent ==
    \/ ReceiveConcurrentRequest
    \/ Concurrent_retrieve
    \/ Concurrent_create_begin
    \/ Concurrent_create_add_owner
    \/ Concurrent_create_add_users
    \/ Concurrent_partial_update_begin
    \/ Concurrent_update_save
    \/ Concurrent_update_clear
    \/ Concurrent_update_add_owner
    \/ Concurrent_update_add_users
    \/ Concurrent_partial_update_respond
    \/ Deliver

SpecConcurrent == Init /\ [][NextConcurrent]_vars

\* --- member replaces served concurrently
\* Users register until there are MaxUsers; user 1 creates a board and replaces
\* its members by one of the other users.
ReplaceLists == {<<u>> : u \in 2..MaxUsers}
Registrations ==
    {[op |-> "registration", data |-> [password |-> "p", repeated_password |-> q]] :
        q \in (IF nextUserId <= MaxUsers /\ \A w \in Workers : Work[w].op # "registration"
               THEN {"p", "q"} ELSE {})}
ReplaceRequests ==
    Registrations
        \cup {[op |-> "board_create", user |-> 1, data |-> d] :
                d \in (IF nextBoardId <= MaxConcurrentBoards
                       THEN BoardPayloads({"A"}, {}) ELSE {})}
        \cup {[op |-> "board_partial_update", user |-> 1, pk |-> b, data |-> d] :
                b \in 1..MaxConcurrentBoards, d \in BoardPayloads({}, ReplaceLists)}

ReceiveReplaceRequest == Receive(ReplaceRequests)

NextReplace ==
    \/ ReceiveReplaceRequest
    \/ Concurrent_registration
    \/ Concurrent_create_begin
    \/ Concurrent_create_add_owner
    \/ Concurrent_create_add_users
    \/ Concurrent_partial_update_begin
    \/ Concurrent_update_save
    \/ Concurrent_update_clear
    \/ Concurrent_update_add_owner
    \/ Concurrent_update_add_users
    \/ Concurrent_partial_update_respond
    \/ Deliver

SpecReplace == Init /\ [][NextReplace]_vars

\* ================================================================ claims
\* A response to a request of kind op has just been returned.
Answered(op) == resp # NoResponse /\ resp.req.op = op
\* This step is the handler of a request of kind op returning.
Handles(op) == req.op = op /\ resp' # NoResponse

BadIds(ids) == Elems(ids) \ Users
NamesIds(r, f, ids) == \E e \in r.errors : e.field = f /\ e.ids = ids

\* C1: in every state reached by board creates and board PATCHes (member
\* replace or title only), every board's owner is one of its members.
C1_OwnerInMembers ==
    \A b \in DOMAIN boards : boards[b].owner \in boards[b].members

\* A member replace whose list leaves the owner out has been applied.
C1_Witness ==
    /\ Answered("board_partial_update")
    /\ resp.status = HTTP_200_OK
    /\ Has(resp.req.data, "members")
    /\ boards[resp.req.pk].owner \notin Elems(resp.req.data.members)
    /\ Elems(resp.req.data.members) # {}
    /\ boards[resp.req.pk].owner \in boards[resp.req.pk].members

\* C2: in every reachable state every task's assignee and reviewer, if set,
\* is the owner or a current member of the task's board.
C2_AssigneeReviewerOnBoard ==
    \A t \in DOMAIN tasks :
        /\ tasks[t].assignee # None =>
                IsOwnerOrMember(tasks[t].assignee, boards[tasks[t].board])
        /\ tasks[t].reviewer # None =>
                IsOwnerOrMember(tasks[t].reviewer, boards[tasks[t].board])

\* The resource a request addresses by id exists (in the state before it).
AddressedExists(r) ==
    IF r.op \in {"board_retrieve", "board_partial_update", "board_destroy"}
    THEN r.pk \in DOMAIN boards
    ELSE IF r.op \in {"task_partial_update", "task_destroy", "comments"}
    THEN r.pk \in DOMAIN tasks
    ELSE /\ r.pk \in DOMAIN tasks
         /\ r.comment_id \in DOMAIN comments
         /\ comments[r.comment_id].task = r.pk

AddressingOps ==
    {"board_retrieve", "board_partial_update", "board_destroy",
     "task_partial_update", "task_destroy", "comments", "delete_comment"}

\* C3: a request that addresses a board, task or comment that does not exist
\* is answered 404, whoever sends it, also DELETE of a missing comment id
\* under an existing task.
C3_MissingIsNotFound ==
    [][(req.op \in AddressingOps /\ resp' # NoResponse /\ ~AddressedExists(req))
            => resp'.status = HTTP_404_NOT_FOUND]_vars

\* C4: task creation naming an existing board by an actor who is neither its
\* owner nor a member is answered 403 and creates no task.
C4_OutsiderCreateForbidden ==
    [][(/\ Handles("task_create")
        /\ Has(req.data, "board")
        /\ req.data.board \in DOMAIN boards
        /\ ~IsOwnerOrMember(req.user, boards[req.data.board]))
            => (resp'.status = HTTP_403_FORBIDDEN /\ tasks' = tasks)]_vars

\* The board a request is about: the addressed board, or the addressed
\* task's board.
BoardOf(r) ==
    IF r.op \in {"board_retrieve", "board_partial_update", "board_destroy"}
    THEN boards[r.pk]
    ELSE boards[tasks[r.pk].board]

MemberGatedOps ==
    {"board_retrieve", "board_partial_update", "board_destroy",
     "task_partial_update", "task_destroy", "comments"}

\* C5: on an existing board or task, an actor who is neither owner nor member
\* of the (task's) board gets 403 from GET/PATCH/DELETE board, PATCH/DELETE
\* task and GET/POST comments whatever the payload, and nothing changes.
C5_OutsiderForbidden ==
    [][(/\ req.op \in MemberGatedOps
        /\ resp' # NoResponse
        /\ AddressedExists(req)
        /\ ~IsOwnerOrMember(req.user, BoardOf(req)))
            => (/\ resp'.status = HTTP_403_FORBIDDEN
                /\ boards' = boards /\ tasks' = tasks /\ comments' = comments)]_vars

\* An outsider's board PATCH with an unregistered member id and a blank title
\* was refused.
C5_Witness ==
    /\ Answered("board_partial_update")
    /\ resp.status = HTTP_403_FORBIDDEN
    /\ resp.req.pk \in DOMAIN boards
    /\ ~IsOwnerOrMember(resp.req.user, boards[resp.req.pk])
    /\ BoardSerializer_errors(resp.req.data, TRUE) # {}

\* C6: DELETE removes an existing board iff the actor is its owner, and an
\* existing task iff the actor owns the task's board; a member who is not the
\* owner gets 403 and the board or task stays.
C6_OnlyOwnerDeletes ==
    [][/\ (Handles("board_destroy") /\ req.pk \in DOMAIN boards) =>
            /\ (req.pk \notin DOMAIN boards') <=> (req.user = boards[req.pk].owner)
            /\ (req.user # boards[req.pk].owner /\ req.user \in boards[req.pk].members)
                    => resp'.status = HTTP_403_FORBIDDEN
       /\ (Handles("task_destroy") /\ req.pk \in DOMAIN tasks) =>
            /\ (req.pk \notin DOMAIN tasks')
                    <=> (req.user = boards[tasks[req.pk].board].owner)
            /\ (/\ req.user # boards[tasks[req.pk].board].owner
                /\ req.user \in boards[tasks[req.pk].board].members)
                    => resp'.status = HTTP_403_FORBIDDEN]_vars

\* A member who is not the owner was refused the deletion of a task.
C6_Witness ==
    /\ Answered("task_destroy")
    /\ resp.status = HTTP_403_FORBIDDEN
    /\ resp.req.pk \in DOMAIN tasks
    /\ resp.req.user \in boards[tasks[resp.req.pk].board].members
    /\ resp.req.user # boards[tasks[resp.req.pk].board].owner

\* C7: DELETE of a comment removes it only when the actor is its author; any
\* other actor addressing the comment under its task, the board's owner
\* included, gets 403 and the comment stays.
C7_OnlyAuthorDeletes ==
    [][Handles("delete_comment") =>
        /\ \A c \in DOMAIN comments : c \notin DOMAIN comments' =>
                (c = req.comment_id /\ comments[c].author = req.user)
        /\ (AddressedExists(req) /\ comments[req.comment_id].author # req.user) =>
                (/\ resp'.status = HTTP_403_FORBIDDEN
                 /\ req.comment_id \in DOMAIN comments')]_vars

\* The owner of the board was refused the deletion of a member's comment.
C7_Witness ==
    /\ Answered("delete_comment")
    /\ resp.status = HTTP_403_FORBIDDEN
    /\ resp.req.pk \in DOMAIN tasks
    /\ resp.req.comment_id \in DOMAIN comments
    /\ comments[resp.req.comment_id].task = resp.req.pk
    /\ comments[resp.req.comment_id].author # resp.req.user
    /\ boards[tasks[resp.req.pk].board].owner = resp.req.user

TaskAddressingOps == {"task_partial_update", "task_destroy", "comments", "delete_comment"}

\* C8: deleting a board deletes exactly its tasks and their comments, deleting
\* a task exactly its comments; no task is left without its board and no
\* comment without its task, a deleted task or comment never comes back, and
\* every request on a task that is gone is answered 404.
C8_CascadeDelete ==
    [][/\ \A t \in DOMAIN tasks' : tasks'[t].board \in DOMAIN boards'
       /\ \A c \in DOMAIN comments' : comments'[c].task \in DOMAIN tasks'
       /\ (Handles("board_destroy") /\ resp'.status = HTTP_204_NO_CONTENT) =>
            /\ tasks' = Remove(tasks, {t \in DOMAIN tasks : tasks[t].board = req.pk})
            /\ comments' = Remove(comments,
                    {c \in DOMAIN comments : tasks[comments[c].task].board = req.pk})
            /\ boards' = Remove(boards, {req.pk})
       /\ (Handles("task_destroy") /\ resp'.status = HTTP_204_NO_CONTENT) =>
            /\ tasks' = Remove(tasks, {req.pk})
            /\ comments' = Remove(comments,
                    {c \in DOMAIN comments : comments[c].task = req.pk})
       /\ \A t \in 1..(nextTaskId - 1) : t \notin DOMAIN tasks => t \notin DOMAIN tasks'
       /\ \A c \in 1..(nextCommentId - 1) :
                c \notin DOMAIN comments => c \notin DOMAIN comments'
       /\ (req.op \in TaskAddressingOps /\ resp' # NoResponse
                /\ req.pk \notin DOMAIN tasks) => resp'.status = HTTP_404_NOT_FOUND]_vars

\* A board with a commented task was deleted while another board's task and
\* its comment stayed.
C8_Witness ==
    /\ Answered("board_destroy")
    /\ resp.status = HTTP_204_NO_CONTENT
    /\ nextTaskId = 3 /\ nextCommentId = 3
    /\ Cardinality(DOMAIN tasks) = 1
    /\ Cardinality(DOMAIN comments) = 1

\* C9: a board create whose member list holds an unregistered id is answered
\* 400 naming the unregistered ids and writes no board; a board PATCH with
\* such a list changes no board and, sent by the owner or a member, is
\* answered 400 naming them.
C9_UnknownMemberRejected ==
    [][/\ (/\ Handles("board_create")
           /\ Has(req.data, "members")
           /\ BadIds(req.data.members) # {}) =>
                /\ resp'.status = HTTP_400_BAD_REQUEST
                /\ NamesIds(resp', "members", BadIds(req.data.members))
                /\ boards' = boards
                /\ nextBoardId' = nextBoardId
       /\ (/\ Handles("board_partial_update")
           /\ Has(req.data, "members")
           /\ BadIds(req.data.members) # {}) =>
                /\ boards' = boards
                /\ (req.pk \in DOMAIN boards /\ IsOwnerOrMember(req.user, boards[req.pk]))
                        => /\ resp'.status = HTTP_400_BAD_REQUEST
                           /\ NamesIds(resp', "members", BadIds(req.data.members))]_vars

\* A create with a valid title, a registered and an unregistered member id was
\* refused.
C9_Witness ==
    /\ Answered("board_create")
    /\ resp.status = HTTP_400_BAD_REQUEST
    /\ Has(resp.req.data, "title") /\ resp.req.data.title = "A"
    /\ Has(resp.req.data, "members")
    /\ Elems(resp.req.data.members) \cap Users # {}
    /\ BadIds(resp.req.data.members) # {}
    /\ boards = <<>>

\* C10: when every id of the member list is a registered user (lists holding
\* the owner, repeating an id or empty included) and the title is valid,
\* create succeeds with members = ids + owner, and a member replace by the
\* owner or a member succeeds with members = new ids + owner.
C10_ResolvingListAccepted ==
    [][/\ (/\ Handles("board_create")
           /\ BoardTitleErrors(req.data, FALSE) = {}
           /\ Has(req.data, "members")
           /\ BadIds(req.data.members) = {}) =>
                /\ resp'.status = HTTP_201_CREATED
                /\ nextBoardId \in DOMAIN boards'
                /\ boards'[nextBoardId].members =
                        Elems(req.data.members) \cup {req.user}
       /\ (/\ Handles("board_partial_update")
           /\ req.pk \in DOMAIN boards
           /\ IsOwnerOrMember(req.user, boards[req.pk])
           /\ BoardTitleErrors(req.data, TRUE) = {}
           /\ Has(req.data, "members")
           /\ BadIds(req.data.members) = {}) =>
                /\ resp'.status = HTTP_200_OK
                /\ boards'[req.pk].members =
                        Elems(req.data.members) \cup {boards[req.pk].owner}]_vars

\* The task field a payload key writes.
TaskColumn(key) ==
    IF key = "assignee_id" THEN "assignee"
    ELSE IF key = "reviewer_id" THEN "reviewer"
    ELSE key

PatchKeys ==
    {"title", "description", "status", "priority", "due_date",
     "assignee_id", "reviewer_id"}

\* C11: a successful task PATCH leaves every field whose key the payload
\* omits at its prior value: title, description, status, priority, due date,
\* and assignee and reviewer when assignee_id or reviewer_id is omitted.
C11_OmittedFieldsKept ==
    [][(Handles("task_partial_update") /\ resp'.status = HTTP_200_OK)
            => \A key \in PatchKeys \ DOMAIN req.data :
                    tasks'[req.pk][TaskColumn(key)] = tasks[req.pk][TaskColumn(key)]]_vars

\* A PATCH of the priority alone has been applied to a task whose other fields
\* all hold values that are not the defaults, and they are still there.
C11_Witness ==
    /\ Answered("task_partial_update")
    /\ resp.status = HTTP_200_OK
    /\ DOMAIN resp.req.data = {"priority"}
    /\ tasks[resp.req.pk] =
            [board |-> 1, title |-> "U", description |-> "e", status |-> "review",
             priority |-> "high", due_date |-> "2026-01-01",
             assignee |-> 1, reviewer |-> NumUsers]

\* The sender of the task PATCH in flight is the owner or a member of the
\* board of the task it addresses.
MemberPatches ==
    /\ Handles("task_partial_update")
    /\ req.pk \in DOMAIN tasks
    /\ IsOwnerOrMember(req.user, boards[tasks[req.pk].board])

\* C12: a task PATCH by a board member that carries the explicit clear value
\* 0 as assignee_id (reviewer_id) for a task whose assignee (reviewer) is set
\* succeeds and leaves the task without assignee (reviewer).
C12_ExplicitClear ==
    [][(/\ MemberPatches
        /\ \/ DOMAIN req.data = {"assignee_id"} /\ req.data.assignee_id = 0
                /\ tasks[req.pk].assignee # None
           \/ DOMAIN req.data = {"reviewer_id"} /\ req.data.reviewer_id = 0
                /\ tasks[req.pk].reviewer # None)
            => /\ resp'.status = HTTP_200_OK
               /\ Has(req.data, "assignee_id") => tasks'[req.pk].assignee = None
               /\ Has(req.data, "reviewer_id") => tasks'[req.pk].reviewer = None]_vars

\* C13: a task PATCH by a board member that carries nothing but assignee_id
\* (or nothing but reviewer_id) with the id of the owner or of a member of the
\* task's board is answered 200 and stores that user as assignee (reviewer).
C13_IdAlonePatch ==
    [][(/\ MemberPatches
        /\ \E key \in {"assignee_id", "reviewer_id"} :
                /\ DOMAIN req.data = {key}
                /\ req.data[key] \in Users
                /\ IsOwnerOrMember(req.data[key], boards[tasks[req.pk].board]))
            => /\ resp'.status = HTTP_200_OK
               /\ \A key \in DOMAIN req.data :
                    tasks'[req.pk][TaskColumn(key)] = req.data[key]]_vars

\* C16: no request is answered by an unhandled fault (500): a bad payload
\* gets a 400 that names the fields at fault and a missing permission a 403;
\* a task PATCH that carries assignee_id or reviewer_id and no board is
\* answered 200 or such a 400.
C16_NoUnhandledFault ==
    /\ resp.status # HTTP_500_INTERNAL_SERVER_ERROR
    /\ resp.status = HTTP_400_BAD_REQUEST => resp.errors # {}

\* The task representations a response carries: the task of a create or
\* PATCH response, the tasks of a board detail, the rows of a task list.
TasksIn(r) ==
    IF r.status \notin {HTTP_200_OK, HTTP_201_CREATED} THEN {}
    ELSE IF r.req.op \in {"task_create", "task_partial_update"} THEN {r.body}
    ELSE IF r.req.op = "board_retrieve" THEN Elems(r.body.tasks)
    ELSE IF r.req.op \in {"assigned_to_me", "reviewing"} THEN Elems(r.body)
    ELSE {}

\* C14: no task is ever stored with a status outside to-do, in-progress,
\* review, done ("reviewing" is never persisted), and every task a response
\* carries (create and PATCH response, board detail, assigned-to-me and
\* reviewing lists) shows the stored status, "review" as "review".
C14_StatusNormalised ==
    /\ \A t \in DOMAIN tasks : tasks[t].status \in STATUS_CHOICES
    /\ \A x \in TasksIn(resp) :
            x.status \in STATUS_CHOICES /\ x.status = tasks[x.id].status

\* A PATCH that set the status to "review" has answered with "review".
C14_Witness ==
    /\ Answered("task_partial_update")
    /\ Has(resp.req.data, "status")
    /\ resp.req.data.status = "review"
    /\ \E x \in TasksIn(resp) : x.status = "review"

\* The member set a board create or member replace in flight is to leave.
NewMembers(r) ==
    {boards[r.pk].owner} \cup UsersWithIdIn(Get(r.data, "members", <<>>))

\* C15: no concurrent request sees a board between the statements of a board
\* create or a member replace: every board has its owner among its members,
\* and once a create has inserted its board, or a member replace has cleared
\* the member set, the board holds the whole new member set.
C15_NoPartialMemberSet ==
    /\ \A b \in DOMAIN boards : boards[b].owner \in boards[b].members
    /\ \A w \in Workers :
            (/\ Work[w].op \in {"board_create", "board_partial_update"}
             /\ Work[w].pc \in {"add_owner", "add_users"})
                => NewMembers(Work[w]) \subseteq boards[Work[w].pk].members

\* The tasks whose board user can access (as owner or member).
AccessibleTasks(user) ==
    {t \in DOMAIN tasks : IsOwnerOrMember(user, boards[tasks[t].board])}

ListedIds(r) == {x.id : x \in Elems(r.body)}

\* C17: GET /tasks/assigned-to-me/ by user u returns exactly the tasks whose
\* assignee is u and whose board u can access, GET /tasks/reviewing/ those
\* whose reviewer is u, each task once; a task on a board u cannot access is
\* not in the list although u is its assignee or reviewer.
C17_ListsExact ==
    /\ Answered("assigned_to_me") =>
            /\ ListedIds(resp) = {t \in AccessibleTasks(resp.req.user) :
                                    tasks[t].assignee = resp.req.user}
            /\ Len(resp.body) = Cardinality(ListedIds(resp))
    /\ Answered("reviewing") =>
            /\ ListedIds(resp) = {t \in AccessibleTasks(resp.req.user) :
                                    tasks[t].reviewer = resp.req.user}
            /\ Len(resp.body) = Cardinality(ListedIds(resp))

\* The assigned-to-me list of a user shows a task on a board the user owns
\* and shares with a second member, and leaves out another task assigned to
\* the same user on a board the user cannot access.
C17_Witness ==
    /\ Answered("assigned_to_me")
    /\ \E t \in ListedIds(resp) :
            /\ boards[tasks[t].board].owner = resp.req.user
            /\ Cardinality(boards[tasks[t].board].members) = 2
    /\ \E t \in DOMAIN tasks \ ListedIds(resp) : tasks[t].assignee = resp.req.user

IdKeys == {"assignee_id", "reviewer_id"}

\* The task create in flight names a board its sender is on, has a title, and
\* carries assignee_id and/or reviewer_id, each the id of a registered user.
MemberCreatesWithIds ==
    /\ Handles("task_create")
    /\ Has(req.data, "board") /\ req.data.board \in DOMAIN boards
    /\ IsOwnerOrMember(req.user, boards[req.data.board])
    /\ Has(req.data, "title") /\ req.data.title # ""
    /\ IdKeys \cap DOMAIN req.data # {}
    /\ \A key \in IdKeys \cap DOMAIN req.data : req.data[key] \in Users

\* The id keys of a payload whose user is neither owner nor member of board.
OffBoardKeys(data, board) ==
    {key \in IdKeys \cap DOMAIN data : ~IsOwnerOrMember(data[key], board)}

\* C18: a task create by a board member whose assignee_id or reviewer_id is
\* a registered user who is neither owner nor member of the named board is
\* answered 400 with an error keyed to that field and creates no task; with
\* the id of the owner or of a member it is answered 201 and stores the user.
C18_CreateChecksBoard ==
    [][MemberCreatesWithIds =>
        IF OffBoardKeys(req.data, boards[req.data.board]) # {}
        THEN /\ resp'.status = HTTP_400_BAD_REQUEST
             /\ \E e \in resp'.errors :
                    e.field \in OffBoardKeys(req.data, boards[req.data.board])
             /\ tasks' = tasks
        ELSE /\ resp'.status = HTTP_201_CREATED
             /\ DOMAIN tasks' = DOMAIN tasks \cup {nextTaskId}
             /\ \A key \in IdKeys \cap DOMAIN req.data :
                    tasks'[nextTaskId][TaskColumn(key)] = req.data[key]]_vars

\* A member's create naming a registered user who is not on the board has
\* been refused with an error keyed assignee_id.
C18_Witness ==
    /\ Answered("task_create")
    /\ resp.status = HTTP_400_BAD_REQUEST
    /\ \E e \in resp.errors : e.field = "assignee_id" /\ e.code = "not_member"
    /\ resp.req.data.assignee_id \in Users
    /\ IsOwnerOrMember(resp.req.user, boards[resp.req.data.board])
    /\ tasks = <<>>

\* C19: a task PATCH never changes the assignee or the reviewer of a task to
\* a user who is neither owner nor member of the board the task is on,
\* whatever else the payload carries (a board key naming another board that
\* the sender and the proposed user are both on included).
C19_PatchChecksOwnBoard ==
    [][(Handles("task_partial_update") /\ req.pk \in DOMAIN tasks)
        => \A column \in {"assignee", "reviewer"} :
                tasks'[req.pk][column] # tasks[req.pk][column]
                    => IsOwnerOrMember(tasks'[req.pk][column],
                                       boards[tasks[req.pk].board])]_vars

\* C20: no request changes the board of a task or the owner of a board: a
\* task PATCH that carries board leaves the task on its board, a board PATCH
\* by any member leaves the owner.
C20_BoardAndOwnerFixed ==
    [][/\ \A t \in DOMAIN tasks \cap DOMAIN tasks' : tasks'[t].board = tasks[t].board
       /\ \A b \in DOMAIN boards \cap DOMAIN boards' :
                boards'[b].owner = boards[b].owner]_vars

\* A task PATCH naming a board other than the task's own has been applied.
C20_Witness ==
    /\ Answered("task_partial_update")
    /\ resp.status = HTTP_200_OK
    /\ Has(resp.req.data, "board")
    /\ resp.req.data.board # tasks[resp.req.pk].board

\* Worker w has applied a member replace of the board of the response just
\* returned and is about to answer, and no other worker writes that board.
AlsoReplaced(w) ==
    /\ At(w, "board_partial_update", "respond")
    /\ Has(Work[w].data, "members")
    /\ Work[w].pk = resp.req.pk
    /\ \A v \in Workers \ {w} :
            (/\ Work[v].op \in {"board_create", "board_partial_update"}
             /\ Work[v].pc # "begin")
                => Work[v].pk # resp.req.pk

\* C21: when two member replaces of a board with lists A and B have both
\* been applied, one answered and the other about to be, the board's members
\* are A and the owner or B and the owner, never users of both lists mixed,
\* and the owner is among them.
C21_LastWriteWins ==
    \A w \in Workers :
        (/\ resp.status = HTTP_200_OK
         /\ resp.req.op = "board_partial_update"
         /\ Has(resp.req.data, "members")
         /\ AlsoReplaced(w))
            => LET board == boards[resp.req.pk]
                   A == UsersWithIdIn(resp.req.data.members)
                   B == UsersWithIdIn(Work[w].data.members)
               IN  board.members \in {A \cup {board.owner}, B \cup {board.owner}}

\* C22: DELETE of a comment needs board access and authorship together: a
\* sender who is neither owner nor member of the task's board gets 403 and no
\* comment goes, whether the comment exists or not and even when the sender
\* wrote it; a comment that goes was deleted by its author, who is on the board.
C22_AccessBeforeAuthorship ==
    [][Handles("delete_comment") =>
        /\ (/\ req.pk \in DOMAIN tasks
            /\ ~IsOwnerOrMember(req.user, boards[tasks[req.pk].board])) =>
                (/\ resp'.status = HTTP_403_FORBIDDEN
                 /\ comments' = comments)
        /\ resp'.status = HTTP_204_NO_CONTENT =>
                (/\ IsOwnerOrMember(req.user, boards[tasks[req.pk].board])
                 /\ comments[req.comment_id].author = req.user
                 /\ req.comment_id \notin DOMAIN comments')]_vars

\* The author of a comment, since taken off the board, was refused its
\* deletion and the comment is still there.
C22_Witness ==
    /\ Answered("delete_comment")
    /\ resp.status = HTTP_403_FORBIDDEN
    /\ resp.req.pk \in DOMAIN tasks
    /\ resp.req.comment_id \in DOMAIN comments
    /\ comments[resp.req.comment_id].task = resp.req.pk
    /\ comments[resp.req.comment_id].author = resp.req.user
    /\ ~IsOwnerOrMember(resp.req.user, boards[tasks[resp.req.pk].board])

====
